---- MODULE Spec2Model ----
(***************************************************************************)
(* Model of src/network2/libp2p/connection/noise.rs: two `Noise` values,   *)
(* one per endpoint of a connection, and the bytes in flight between them. *)
(*                                                                         *)
(* A Rust panic unwinds out of the method that raised it: the fields keep  *)
(* whatever the method had assigned before the panic, the call returns     *)
(* nothing, and the value stays usable by a caller that catches the        *)
(* unwind.  `panicked` records that a call on the endpoint has aborted.    *)
(*                                                                         *)
(* `debug_assert!` is compiled in debug builds only; `debug_assertions`    *)
(* is the build's choice, fixed in Init.                                   *)
(*                                                                         *)
(* `tx_buffer_encrypted` is a VecDeque: a ring buffer of capacity tx_cap   *)
(* whose front element is at physical index tx_head.  Its contents are     *)
(* kept as the logical sequence; head and capacity determine the two       *)
(* contiguous regions that as_slices()/as_mut_slices() expose.             *)
(***************************************************************************)
EXTENDS Integers, Sequences, FiniteSets, TLC

\* ------------------------------------------------------------------ bounds
MaxCalls == 5          \* calls made on the two endpoints in one behaviour
MaxDestLen == 2        \* longest destination slice handed to write_out
MaxChunkLen == 2       \* longest piece of the wire handed to inject_inbound_data
MaxHsCalls == 9        \* handshake calls made on the two endpoints in one behaviour
MaxEstablishedCalls == 1   \* transport calls made in a behaviour that starts with
                           \* the handshake

\* ------------------------------------------------------- program constants
NoiseMaxMsgLen == 65535   \* "The maximum size of a noise message is 65535 bytes"
TagLen == 16              \* ChaChaPoly authentication tag of NOISE_PARAMS
MinNonZeroCap == 8        \* smallest allocation of a growing byte buffer

Side == {"a", "b"}
Peer(s) == IF s = "a" THEN "b" ELSE "a"

VARIABLES
    rx_buffer_encrypted,   \* [Side -> Seq(byte)]  VecDeque<u8>
    rx_buffer_decrypted,   \* [Side -> Seq(byte)]  Vec<u8>
    tx_buffer_encrypted,   \* [Side -> Seq(byte)]  VecDeque<u8>, logical contents
    tx_head,               \* [Side -> Nat]        physical index of the front
    tx_cap,                \* [Side -> Nat]        capacity of the ring
    send_nonce,            \* [Side -> u64]        inner: sending CipherState.n
    recv_nonce,            \* [Side -> u64]        inner: receiving CipherState.n
    panicked,              \* [Side -> BOOLEAN]    a call on the endpoint aborted
    debug_assertions,      \* BOOLEAN              debug build
    wire,                  \* [Side -> Seq(byte)]  written out by s, not yet fed to Peer(s)
    written,               \* [Side -> Seq(byte)]  all plaintext passed to inject_outbound_data
    drained,               \* [Side -> Seq(byte)]  all bytes write_out has returned
    appended,              \* [Side -> Seq(byte)]  the bytes each inject_outbound_data call added
                           \*                      at the back of the queue, concatenated
    last,                  \* the last call: [op, side, ok (did not panic), ret, arg (input
                           \*   length), err (the error the call handed its caller, or "panic")]
    calls,                 \* number of calls made
    auth_failed,           \* [Side -> BOOLEAN]    read_message has rejected a tag on s
    tampered,              \* BOOLEAN              the chunk fed last came from a frame that
                           \*                      was modified on the wire
    hs_pos,                \* [Side -> 0..3]       handshake messages processed by s
    phase,                 \* [Side -> {"handshake", "established"}]
    hs_net,                \* [Side -> Seq(0..2)]  handshake messages sent to s, not yet read
    hs_calls,              \* number of handshake calls made
    genesis_storage,       \* the genesis storage handed to from_genesis_storage
    chain_info,            \* a ChainInformation
    chain_ref,             \* Option<ChainInformationRef> borrowed from chain_info
    chain_back,            \* Option<ChainInformation> built from chain_ref
    chain_result           \* what the last from_genesis_storage call did: [op, kind
                           \*   ("Ok", "Err", "panic"), err, value]

transportVars ==
    <<rx_buffer_encrypted, rx_buffer_decrypted, tx_buffer_encrypted, tx_head,
      tx_cap, send_nonce, recv_nonce, panicked, debug_assertions, wire,
      written, drained, appended, calls, auth_failed, tampered>>
hsVars == <<hs_pos, phase, hs_net, hs_calls>>
chainVars == <<genesis_storage, chain_info, chain_ref, chain_back, chain_result>>
otherVars == <<hsVars, chainVars>>

vars == <<rx_buffer_encrypted, rx_buffer_decrypted, tx_buffer_encrypted, tx_head,
          tx_cap, send_nonce, recv_nonce, panicked, debug_assertions, wire,
          written, drained, appended, last, calls, auth_failed, tampered,
          hs_pos, phase, hs_net, hs_calls,
          genesis_storage, chain_info, chain_ref, chain_back, chain_result>>

\* ----------------------------------------------------------------- helpers
Min(x, y) == IF x <= y THEN x ELSE y
Max(x, y) == IF x >= y THEN x ELSE y
SatSub(x, y) == IF x >= y THEN x - y ELSE 0      \* usize::saturating_sub
Take(q, n) == SubSeq(q, 1, Min(n, Len(q)))
Drop(q, n) == SubSeq(q, n + 1, Len(q))

RECURSIVE SumSeq(_)
SumSeq(q) == IF q = <<>> THEN 0 ELSE Head(q) + SumSeq(Tail(q))

\* Vec::resize(new_len, value)
Resize(q, n, v) ==
    IF n <= Len(q) THEN SubSeq(q, 1, n)
    ELSE q \o [i \in 1..(n - Len(q)) |-> v]

\* u16::to_be_bytes
ToBeBytes(n) == <<n \div 256, n % 256>>
FromBeBytes(b) == b[1] * 256 + b[2]

\* q with the bytes of w written over positions at+1 .. at+Len(w)
Overwrite(q, at, w) ==
    [i \in 1..Len(q) |-> IF i > at /\ i <= at + Len(w) THEN w[i - at] ELSE q[i]]

\* ------------------------------------------------- snow: CipherState (u64 n)
\* TLC's integers are 32 bits wide, so the 64-bit counter is four 16-bit
\* limbs, high first.
LimbBase == 256 * 256
NonceZero == <<0, 0, 0, 0>>
NonceMax == <<LimbBase - 1, LimbBase - 1, LimbBase - 1, LimbBase - 1>>   \* u64::MAX

\* u64::MAX - 1, the last nonce an encryption may use
NonceLast == <<LimbBase - 1, LimbBase - 1, LimbBase - 1, LimbBase - 2>>

\* m < n
NonceLess(m, n) ==
    \E i \in 1..4 : m[i] < n[i] /\ \A j \in 1..(i - 1) : m[j] = n[j]

\* n + 1 for n < u64::MAX
NonceInc(n) ==
    IF n[4] < LimbBase - 1 THEN [n EXCEPT ![4] = @ + 1]
    ELSE IF n[3] < LimbBase - 1 THEN [n EXCEPT ![4] = 0, ![3] = @ + 1]
    ELSE IF n[2] < LimbBase - 1 THEN [n EXCEPT ![4] = 0, ![3] = 0, ![2] = @ + 1]
    ELSE [n EXCEPT ![4] = 0, ![3] = 0, ![2] = 0, ![1] = @ + 1]

\* The byte of the key stream the model derives from key and nonce.
KeyOf(s) == IF s = "a" THEN 3 ELSE 5        \* key of the direction s -> Peer(s)
Pad(k, n) == (k + n[4] + n[3] + n[2] + n[1]) % 256

\* AEAD encryption: Len(p) masked bytes followed by a TagLen-byte tag that
\* depends on key, nonce and every plaintext byte.
CipherTag(k, n, p) ==
    [i \in 1..TagLen |-> (Pad(k, n) + SumSeq(p) + 7 * i + Len(p)) % 256]
CipherBody(k, n, p) == [i \in 1..Len(p) |-> (p[i] + Pad(k, n) + i) % 256]
Encrypt(k, n, p) == CipherBody(k, n, p) \o CipherTag(k, n, p)

\* AEAD decryption of c (Len(c) >= TagLen): the plaintext, and whether the tag verifies.
DecryptBody(k, n, c) ==
    [i \in 1..(Len(c) - TagLen) |-> (c[i] + 512 - Pad(k, n) - i) % 256]
TagVerifies(k, n, c) ==
    SubSeq(c, Len(c) - TagLen + 1, Len(c)) = CipherTag(k, n, DecryptBody(k, n, c))

\* snow::TransportState::write_message(payload, message), on a sending
\* CipherState with key k and counter n.  Returns [ok, n, out, written, err]:
\* Err(Input) when the ciphertext exceeds 65535 bytes or does not fit in
\* message, Err(Exhausted) when the counter is u64::MAX; otherwise the
\* ciphertext is written at the start of message and the counter advances.
WriteMessage(k, n, payload, message) ==
    IF Len(payload) + TagLen > NoiseMaxMsgLen \/ Len(payload) + TagLen > Len(message)
    THEN [ok |-> FALSE, n |-> n, out |-> message, written |-> 0, err |-> "Input"]
    ELSE IF n = NonceMax
    THEN [ok |-> FALSE, n |-> n, out |-> message, written |-> 0, err |-> "Exhausted"]
    ELSE [ok |-> TRUE, n |-> NonceInc(n),
          out |-> Overwrite(message, 0, Encrypt(k, n, payload)),
          written |-> Len(payload) + TagLen, err |-> "none"]

\* snow::TransportState::read_message(payload, message), on a receiving
\* CipherState with key k and counter n.  Returns [ok, n, out, written, err].
\* keep: whether a failed tag check leaves message untouched or leaves the
\* unauthenticated bytes copied into it (the AEAD backend's choice).
ReadMessage(k, n, payload, message, keep) ==
    IF Len(payload) > NoiseMaxMsgLen
       \/ Len(payload) < TagLen
       \/ Len(message) < Len(payload) - TagLen
    THEN [ok |-> FALSE, n |-> n, out |-> message, written |-> 0, err |-> "Input"]
    ELSE IF n = NonceMax
    THEN [ok |-> FALSE, n |-> n, out |-> message, written |-> 0, err |-> "Exhausted"]
    ELSE IF TagVerifies(k, n, payload)
    THEN [ok |-> TRUE, n |-> NonceInc(n),
          out |-> Overwrite(message, 0, DecryptBody(k, n, payload)),
          written |-> Len(payload) - TagLen, err |-> "none"]
    ELSE [ok |-> FALSE, n |-> n,
          out |-> IF keep THEN message
                  ELSE Overwrite(message, 0, SubSeq(payload, 1, Len(payload) - TagLen)),
          written |-> 0, err |-> "Decrypt"]

\* ------------------------------------------------------- alloc: VecDeque<u8>
\* A deque is [data, head, cap]: logical contents, physical index of the
\* front, capacity.
DqNew == [data |-> <<>>, head |-> 0, cap |-> 0]

\* Length of the first of the two regions of as_slices()/as_mut_slices().
DqFirstLen(dq) ==
    IF Len(dq.data) = 0 THEN 0 ELSE Min(Len(dq.data), dq.cap - dq.head)

\* Capacity after reserve() when `required` elements do not fit: amortized
\* doubling, at least MinNonZeroCap.
DqGrownCap(cap, required) == Max(MinNonZeroCap, Max(2 * cap, required))

\* handle_capacity_increase: where the front is after the ring grew from
\* old to new capacity (a wrapped ring has one section moved).
DqHeadAfterGrow(dq, newCap) ==
    LET len == Len(dq.data)
        headLen == dq.cap - dq.head
        tailLen == len - headLen
    IN  IF dq.head <= dq.cap - len THEN dq.head
        ELSE IF headLen > tailLen /\ newCap - dq.cap >= tailLen THEN dq.head
        ELSE newCap - headLen

\* VecDeque::resize(new_len, 0) with new_len >= len()
DqResize(dq, newLen) ==
    IF newLen <= dq.cap
    THEN [dq EXCEPT !.data = Resize(dq.data, newLen, 0)]
    ELSE LET newCap == DqGrownCap(dq.cap, newLen)
         IN  [data |-> Resize(dq.data, newLen, 0),
              head |-> DqHeadAfterGrow(dq, newCap),
              cap |-> newCap]

\* VecDeque::pop_front, n times (n <= len())
RECURSIVE DqPopFront(_, _)
DqPopFront(dq, n) ==
    IF n = 0 \/ Len(dq.data) = 0 THEN dq
    ELSE DqPopFront([data |-> Tail(dq.data),
                     head |-> IF dq.head + 1 >= dq.cap THEN dq.head + 1 - dq.cap
                              ELSE dq.head + 1,
                     cap |-> dq.cap], n - 1)

\* <[T]>::chunks(size): consecutive pieces of at most `size`, none empty
RECURSIVE Chunks(_, _)
Chunks(q, size) ==
    IF Len(q) = 0 THEN <<>>
    ELSE <<Take(q, size)>> \o Chunks(Drop(q, size), size)

\* ------------------------------------------------------------- impl Noise
\* The deque of endpoint s.
TxDeque(s) == [data |-> tx_buffer_encrypted[s], head |-> tx_head[s], cap |-> tx_cap[s]]

\* One iteration of the loop of inject_outbound_data, on st = [dq, n, panicked]
\* (the transmit deque, the sending counter, whether the call has panicked),
\* for one chunk of the payload under the sending key k.
OutboundChunk(st, k, chunk, dbg) ==
    LET p == Len(chunk)
        out_buf_len_before == Len(st.dq.data)
        resized == DqResize(st.dq, out_buf_len_before + 2 + p)
        \* lines 54-56: the length prefix is the length of the plaintext chunk
        prefixed == [resized EXCEPT
                        !.data = Overwrite(@, out_buf_len_before, ToBeBytes(p))]
        len == Len(prefixed.data)
        first == DqFirstLen(prefixed)
        \* lines 59-60: out_buf_slices.1[before.saturating_sub(slices.0.len())..]
        start1 == first + SatSub(out_buf_len_before, first)
        slice1 == SubSeq(prefixed.data, start1 + 1, len)
        \* lines 61-64: out_buf_slices.0[slices.0.len().saturating_sub(before)..]
        off == SatSub(first, out_buf_len_before)
        slice0 == SubSeq(prefixed.data, off + 1, first)
        to_write0 == Min(Len(slice0), p)
        w0 == WriteMessage(k, st.n, Take(chunk, to_write0), slice0)
        after0 == [prefixed EXCEPT !.data = Overwrite(@, off, w0.out)]
        w1 == WriteMessage(k, w0.n, Drop(chunk, to_write0), slice1)
        after1 == [after0 EXCEPT !.data = Overwrite(@, start1, w1.out)]
    IN  IF st.panicked THEN st
        \* line 44: debug_assert!(payload.is_empty())
        ELSE IF dbg /\ p # 0 THEN [st EXCEPT !.panicked = TRUE]
        \* line 54: u16::try_from(payload.len()).unwrap()
        ELSE IF p > 65535 THEN [dq |-> resized, n |-> st.n, panicked |-> TRUE]
        \* line 67: debug_assert!(payload.len() - to_write0 <= slices.1.len())
        ELSE IF dbg /\ SatSub(p, to_write0) > Len(slice1)
        THEN [dq |-> prefixed, n |-> st.n, panicked |-> TRUE]
        \* lines 69-72: write_message(..).unwrap()
        ELSE IF ~w0.ok THEN [dq |-> prefixed, n |-> w0.n, panicked |-> TRUE]
        \* line 73: debug_assert_eq!(_written, to_write0)
        ELSE IF dbg /\ w0.written # to_write0
        THEN [dq |-> after0, n |-> w0.n, panicked |-> TRUE]
        ELSE IF to_write0 = p THEN [dq |-> after0, n |-> w0.n, panicked |-> FALSE]
        \* lines 76-79: write_message(..).unwrap()
        ELSE IF ~w1.ok THEN [dq |-> after0, n |-> w1.n, panicked |-> TRUE]
        \* line 80: debug_assert_eq!(_written, slices.1.len() - to_write0)
        ELSE IF dbg /\ w1.written # SatSub(Len(slice1), to_write0)
        THEN [dq |-> after1, n |-> w1.n, panicked |-> TRUE]
        ELSE [dq |-> after1, n |-> w1.n, panicked |-> FALSE]

\* The loop of inject_outbound_data over payload.chunks(65535), stopping at a panic.
RECURSIVE OutboundChunks(_, _, _, _)
OutboundChunks(st, k, chunks, dbg) ==
    IF chunks = <<>> \/ st.panicked THEN st
    ELSE OutboundChunks(OutboundChunk(st, k, Head(chunks), dbg), k, Tail(chunks), dbg)

\* Noise::inject_outbound_data(payload) on [dq, n]
OutboundResult(dq, n, k, payload, dbg) ==
    OutboundChunks([dq |-> dq, n |-> n, panicked |-> FALSE], k,
                   Chunks(payload, NoiseMaxMsgLen), dbg)

\* Noise::write_out(destination) on a deque, destination.len() = destLen:
\* [panicked, ret, taken, dq].  copy_from_slice panics unless both slices
\* have the same length.
WriteOutResult(dq, destLen) ==
    LET to_write == Take(dq.data, DqFirstLen(dq))
        to_write_len == Min(Len(to_write), destLen)
    IN  IF destLen # to_write_len
        THEN [panicked |-> TRUE, ret |-> 0, taken |-> <<>>, dq |-> dq]
        ELSE [panicked |-> FALSE, ret |-> to_write_len,
              taken |-> Take(to_write, to_write_len),
              dq |-> DqPopFront(dq, to_write_len)]

\* Noise::inject_inbound_data(payload) on the two receive buffers and the
\* receiving counter: [enc, dec, n, ok, err] (ok, err: what read_message
\* returned, which the method drops).
InboundResult(enc, dec, n, k, payload, keep) ==
    LET resized == Resize(dec, Len(payload), 0)
        r == ReadMessage(k, n, payload, resized, keep)
    IN  [enc |-> enc \o payload, dec |-> r.out, n |-> r.n, ok |-> r.ok, err |-> r.err]

\* ------------------------------------------------------------------ inputs
\* Plaintexts: the empty one, short ones, and one of TagLen - 1 bytes.
Payloads == {<<>>, <<1>>, <<2, 1>>, [i \in 1..(TagLen - 1) |-> 1]}

\* The next frame a conforming remote sender would put on the wire for
\* endpoint s, and the pieces a caller may read it in.
RemoteFrame(s, p) ==
    ToBeBytes(Len(p) + TagLen) \o Encrypt(KeyOf(Peer(s)), recv_nonce[s], p)
NetChunks(s) ==
    LET f == RemoteFrame(s, <<7>>)
    IN  {f, Take(f, 2), Drop(f, 2)}

\* ----------------------------------------------------------------- actions
\* -------------------------------------------------------- chain information
None == <<>>
Some(v) == <<v>>

Headers == {[number |-> 0, state_root |-> 1], [number |-> 1, state_root |-> 2]}
BabeNextEpochs == {[authorities |-> <<1>>, randomness |-> 1],
                   [authorities |-> <<2>>, randomness |-> 2]}
BabeNextConfigs == {[c |-> 1, allowed_slots |-> 0], [c |-> 2, allowed_slots |-> 1]}
EpochInformations ==
    {None} \cup {Some(<<e, c>>) : e \in BabeNextEpochs, c \in BabeNextConfigs}
GrandpaAuthorityLists == {<<>>, <<[public_key |-> 1, weight |-> 1]>>}
ScheduledChangeLists ==
    {<<>>, <<[trigger_block_height |-> 5,
              new_authorities_list |-> <<[public_key |-> 2, weight |-> 1]>>]>>}

ChainInformations ==
    [finalized_block_header : Headers,
     babe_finalized_block1_slot_number : {None, Some(1)},
     babe_finalized_block_epoch_information : EpochInformations,
     babe_finalized_next_epoch_transition : EpochInformations,
     grandpa_after_finalized_block_authorities_set_id : {0, 1},
     grandpa_finalized_triggered_authorities : GrandpaAuthorityLists,
     grandpa_finalized_scheduled_changes : ScheduledChangeLists]

\* header::HeaderRef and header::BabeNextEpochRef borrow the value they refer to.
HeaderToRef(h) == [borrowed |-> h]
HeaderFromRef(r) == r.borrowed
BabeNextEpochToRef(x) == [borrowed |-> x]
BabeNextEpochFromRef(r) == r.borrowed

\* .as_ref().map(|(i, c)| (i.into(), *c))
EpochInformationToRef(o) ==
    IF o = None THEN None ELSE Some(<<BabeNextEpochToRef(o[1][1]), o[1][2]>>)

\* .map(|(e, c)| (e.clone().into(), c))
EpochInformationFromRef(o) ==
    IF o = None THEN None ELSE Some(<<BabeNextEpochFromRef(o[1][1]), o[1][2]>>)

\* impl From<&ChainInformation> for ChainInformationRef
ChainInformationRefFrom(info) ==
    [finalized_block_header |-> HeaderToRef(info.finalized_block_header),
     babe_finalized_block1_slot_number |-> info.babe_finalized_block1_slot_number,
     babe_finalized_block_epoch_information |->
        EpochInformationToRef(info.babe_finalized_block_epoch_information),
     babe_finalized_next_epoch_transition |->
        EpochInformationToRef(info.babe_finalized_next_epoch_transition),
     grandpa_after_finalized_block_authorities_set_id |->
        info.grandpa_after_finalized_block_authorities_set_id,
     grandpa_finalized_triggered_authorities |->
        info.grandpa_finalized_triggered_authorities,
     grandpa_finalized_scheduled_changes |-> info.grandpa_finalized_scheduled_changes]

\* The conversion with the two Babe epoch fields taken from each other's source.
ChainInformationFromRefSwapped(info) ==
    [finalized_block_header |-> HeaderFromRef(info.finalized_block_header),
     babe_finalized_block1_slot_number |-> info.babe_finalized_block1_slot_number,
     babe_finalized_block_epoch_information |->
        EpochInformationFromRef(info.babe_finalized_next_epoch_transition),
     babe_finalized_next_epoch_transition |->
        EpochInformationFromRef(info.babe_finalized_block_epoch_information),
     grandpa_after_finalized_block_authorities_set_id |->
        info.grandpa_after_finalized_block_authorities_set_id,
     grandpa_finalized_triggered_authorities |->
        info.grandpa_finalized_triggered_authorities,
     grandpa_finalized_scheduled_changes |-> info.grandpa_finalized_scheduled_changes]

\* impl From<ChainInformationRef> for ChainInformation
ChainInformationFromRef(info) ==
    [finalized_block_header |-> HeaderFromRef(info.finalized_block_header),
     babe_finalized_block1_slot_number |-> info.babe_finalized_block1_slot_number,
     babe_finalized_block_epoch_information |->
        EpochInformationFromRef(info.babe_finalized_block_epoch_information),
     babe_finalized_next_epoch_transition |->
        EpochInformationFromRef(info.babe_finalized_next_epoch_transition),
     grandpa_after_finalized_block_authorities_set_id |->
        info.grandpa_after_finalized_block_authorities_set_id,
     grandpa_finalized_triggered_authorities |->
        info.grandpa_finalized_triggered_authorities,
     grandpa_finalized_scheduled_changes |-> info.grandpa_finalized_scheduled_changes]

\* The genesis storage, reduced to the two entries the configurations are
\* read from.
GenesisStorages ==
    [grandpa_authorities : {None, Some(<<[public_key |-> 1, weight |-> 1]>>)},
     babe_configuration : {None, Some([slots_per_epoch |-> 4])}]

\* grandpa::chain_config::GrandpaGenesisConfiguration::from_genesis_storage
GrandpaGenesisConfigurationFromGenesisStorage(st) ==
    IF st.grandpa_authorities = None
    THEN [ok |-> FALSE, initial_authorities |-> <<>>]
    ELSE [ok |-> TRUE, initial_authorities |-> st.grandpa_authorities[1]]

\* babe::BabeGenesisConfiguration::from_genesis_storage
BabeGenesisConfigurationFromGenesisStorage(st) ==
    [ok |-> st.babe_configuration # None, config |-> st.babe_configuration]

\* crate::calculate_genesis_block_header
CalculateGenesisBlockHeader(st) ==
    [number |-> 0,
     state_root |-> Len(st.grandpa_authorities) + 2 * Len(st.babe_configuration)]

\* ChainInformation::from_genesis_storage
ChainInformationFromGenesisStorage(st) ==
    LET grandpa_genesis_config == GrandpaGenesisConfigurationFromGenesisStorage(st)
    IN  IF ~grandpa_genesis_config.ok
        THEN [kind |-> "panic", err |-> "none", value |-> None]      \* .unwrap()
        ELSE [kind |-> "Ok", err |-> "none",
              value |-> Some(
                [finalized_block_header |-> CalculateGenesisBlockHeader(st),
                 babe_finalized_block1_slot_number |-> None,
                 babe_finalized_block_epoch_information |-> None,
                 babe_finalized_next_epoch_transition |-> None,
                 grandpa_after_finalized_block_authorities_set_id |-> 0,
                 grandpa_finalized_scheduled_changes |-> <<>>,
                 grandpa_finalized_triggered_authorities |->
                    grandpa_genesis_config.initial_authorities])]

\* ChainInformationConfig::from_genesis_storage
ChainInformationConfigFromGenesisStorage(st) ==
    LET babe_genesis_config == BabeGenesisConfigurationFromGenesisStorage(st)
        chain_information == ChainInformationFromGenesisStorage(st)
    IN  IF ~babe_genesis_config.ok
        THEN [kind |-> "panic", err |-> "none", value |-> None]      \* .unwrap()
        ELSE IF chain_information.kind # "Ok"
        THEN chain_information                                       \* `?`
        ELSE [kind |-> "Ok", err |-> "none",
              value |-> Some([chain_information |-> chain_information.value[1],
                              babe_genesis_config |-> babe_genesis_config.config[1]])]

\* No chain information is being built or converted.
ChainIdle ==
    /\ genesis_storage = [grandpa_authorities |-> None, babe_configuration |-> None]
    /\ chain_info = CHOOSE x \in ChainInformations : TRUE
    /\ chain_ref = None
    /\ chain_back = None
    /\ chain_result = [op |-> "none", kind |-> "Ok", err |-> "none", value |-> None]

\* A two-message pattern (IK, NK, ...) in the place of XX.
HandshakePatternTwoMessages == <<"initiator", "responder">>

\* The XX pattern of NOISE_PARAMS: who sends the message at each position.
HandshakePattern == <<"initiator", "responder", "initiator">>
Role(s) == IF s = "a" THEN "initiator" ELSE "responder"
HsMessages == 0..(Len(HandshakePattern) - 1)

\* A Noise that can be built around an unfinished handshake.
EstablishedUnchecked(s) == phase[s] \in {"handshake", "established"}

\* A Noise holds a snow::TransportState, which exists only once the handshake
\* has been turned into transport mode.
Established(s) == phase[s] = "established"

\* Empty buffers; n is the number of messages endpoint "a" has encrypted.
InitTransport(n) ==
    /\ rx_buffer_encrypted = [s \in Side |-> <<>>]
    /\ rx_buffer_decrypted = [s \in Side |-> <<>>]
    /\ tx_buffer_encrypted = [s \in Side |-> DqNew.data]
    /\ tx_head = [s \in Side |-> DqNew.head]
    /\ tx_cap = [s \in Side |-> DqNew.cap]
    /\ send_nonce = [s \in Side |-> IF s = "a" THEN n ELSE NonceZero]
    /\ recv_nonce = [s \in Side |-> NonceZero]
    /\ panicked = [s \in Side |-> FALSE]
    /\ debug_assertions \in BOOLEAN
    /\ wire = [s \in Side |-> <<>>]
    /\ written = [s \in Side |-> <<>>]
    /\ drained = [s \in Side |-> <<>>]
    /\ appended = [s \in Side |-> <<>>]
    /\ last = [op |-> "none", side |-> "a", ok |-> TRUE, ret |-> 0, arg |-> 0,
               err |-> "none"]
    /\ calls = 0
    /\ auth_failed = [s \in Side |-> FALSE]
    /\ tampered = FALSE

\* Two established endpoints with empty buffers; n is the number of messages
\* endpoint "a" has encrypted so far.
InitAt(n) ==
    /\ InitTransport(n)
    /\ hs_pos = [s \in Side |-> Len(HandshakePattern)]
    /\ phase = [s \in Side |-> "established"]
    /\ hs_net = [s \in Side |-> <<>>]
    /\ hs_calls = 0
    /\ ChainIdle

Init == InitAt(NonceZero)

InjectOutboundData(s, payload) ==
    LET r == OutboundResult(TxDeque(s), send_nonce[s], KeyOf(s), payload, debug_assertions)
    IN  /\ Established(s)
        /\ calls < MaxCalls
        /\ tx_buffer_encrypted' = [tx_buffer_encrypted EXCEPT ![s] = r.dq.data]
        /\ tx_head' = [tx_head EXCEPT ![s] = r.dq.head]
        /\ tx_cap' = [tx_cap EXCEPT ![s] = r.dq.cap]
        /\ send_nonce' = [send_nonce EXCEPT ![s] = r.n]
        /\ panicked' = [panicked EXCEPT ![s] = @ \/ r.panicked]
        /\ written' = [written EXCEPT ![s] = @ \o payload]
        /\ appended' = [appended EXCEPT
                            ![s] = @ \o Drop(r.dq.data, Len(tx_buffer_encrypted[s]))]
        /\ last' = [op |-> "inject_outbound_data", side |-> s, ok |-> ~r.panicked,
                    ret |-> 0, arg |-> Len(payload),
                    err |-> IF r.panicked THEN "panic" ELSE "none"]
        /\ calls' = calls + 1
        /\ UNCHANGED <<rx_buffer_encrypted, rx_buffer_decrypted, recv_nonce,
                       debug_assertions, wire, drained, auth_failed>>
        /\ UNCHANGED otherVars

WriteOut(s, destLen) ==
    LET r == WriteOutResult(TxDeque(s), destLen)
    IN  /\ Established(s)
        /\ calls < MaxCalls
        /\ tx_buffer_encrypted' = [tx_buffer_encrypted EXCEPT ![s] = r.dq.data]
        /\ tx_head' = [tx_head EXCEPT ![s] = r.dq.head]
        /\ tx_cap' = [tx_cap EXCEPT ![s] = r.dq.cap]
        /\ panicked' = [panicked EXCEPT ![s] = @ \/ r.panicked]
        /\ wire' = [wire EXCEPT ![s] = @ \o r.taken]
        /\ drained' = [drained EXCEPT ![s] = @ \o r.taken]
        /\ last' = [op |-> "write_out", side |-> s, ok |-> ~r.panicked,
                    ret |-> r.ret, arg |-> destLen,
                    err |-> IF r.panicked THEN "panic" ELSE "none"]
        /\ calls' = calls + 1
        /\ UNCHANGED <<rx_buffer_encrypted, rx_buffer_decrypted, send_nonce,
                       recv_nonce, debug_assertions, written, appended, auth_failed>>
        /\ UNCHANGED otherVars

\* inject_inbound_data on a session whose two directions share one counter.
InjectInboundDataSharedCounter(s, payload, keep) ==
    LET r == InboundResult(rx_buffer_encrypted[s], rx_buffer_decrypted[s],
                           recv_nonce[s], KeyOf(Peer(s)), payload, keep)
    IN  /\ Established(s)
        /\ calls < MaxCalls
        /\ rx_buffer_encrypted' = [rx_buffer_encrypted EXCEPT ![s] = r.enc]
        /\ rx_buffer_decrypted' = [rx_buffer_decrypted EXCEPT ![s] = r.dec]
        /\ recv_nonce' = [recv_nonce EXCEPT ![s] = r.n]
        /\ send_nonce' = [send_nonce EXCEPT
                              ![s] = IF r.n = recv_nonce[s] THEN @ ELSE NonceInc(@)]
        /\ auth_failed' = [auth_failed EXCEPT
                               ![s] = @ \/ (r.err = "Decrypt" /\ Len(payload) >= TagLen)]
        /\ last' = [op |-> "inject_inbound_data", side |-> s, ok |-> TRUE,
                    ret |-> 0, arg |-> Len(payload), err |-> "none"]
        /\ calls' = calls + 1
        /\ UNCHANGED <<tx_buffer_encrypted, tx_head, tx_cap, panicked,
                       debug_assertions, written, drained, appended>>
        /\ UNCHANGED otherVars

InjectInboundData(s, payload, keep) ==
    LET r == InboundResult(rx_buffer_encrypted[s], rx_buffer_decrypted[s],
                           recv_nonce[s], KeyOf(Peer(s)), payload, keep)
    IN  /\ Established(s)
        /\ calls < MaxCalls
        /\ rx_buffer_encrypted' = [rx_buffer_encrypted EXCEPT ![s] = r.enc]
        /\ rx_buffer_decrypted' = [rx_buffer_decrypted EXCEPT ![s] = r.dec]
        /\ recv_nonce' = [recv_nonce EXCEPT ![s] = r.n]
        \* read_message rejected the tag of a chunk long enough to carry one
        /\ auth_failed' = [auth_failed EXCEPT
                               ![s] = @ \/ (r.err = "Decrypt" /\ Len(payload) >= TagLen)]
        \* the method returns (): whatever read_message returned is dropped
        /\ last' = [op |-> "inject_inbound_data", side |-> s, ok |-> TRUE,
                    ret |-> 0, arg |-> Len(payload), err |-> "none"]
        /\ calls' = calls + 1
        /\ UNCHANGED <<tx_buffer_encrypted, tx_head, tx_cap, send_nonce, panicked,
                       debug_assertions, written, drained, appended>>
        /\ UNCHANGED otherVars

\* The caller of endpoint s reads the next n bytes its peer has written out.
FeedFromWire(s) ==
    \E n \in 0..Min(MaxChunkLen, Len(wire[Peer(s)])), keep \in BOOLEAN :
        /\ InjectInboundData(s, Take(wire[Peer(s)], n), keep)
        /\ wire' = [wire EXCEPT ![Peer(s)] = Drop(@, n)]
        /\ tampered' = FALSE

\* The caller of endpoint s reads bytes sent by a conforming remote sender.
FeedFromNet(s) ==
    \E c \in NetChunks(s), keep \in BOOLEAN :
        /\ InjectInboundData(s, c, keep)
        /\ UNCHANGED wire
        /\ tampered' = FALSE

\* q with the lowest bit of its i-th byte flipped
FlipBit(q, i) == [q EXCEPT ![i] = IF @ % 2 = 0 THEN @ + 1 ELSE @ - 1]

\* The next frame of a conforming remote sender with one bit flipped on the
\* wire (in the length prefix, in the ciphertext, in the tag), read whole or
\* read after its 2-byte prefix.
TamperedChunks(s) ==
    LET f == RemoteFrame(s, <<7>>)
        flipped == {FlipBit(f, i) : i \in {2, 3}}
    IN  flipped \cup {Drop(g, 2) : g \in flipped}

\* The caller of endpoint s reads bytes that were modified on the wire.
FeedTampered(s) ==
    \E c \in TamperedChunks(s), keep \in BOOLEAN :
        /\ InjectInboundData(s, c, keep)
        /\ UNCHANGED wire
        /\ tampered' = TRUE

Write(s) == (\E payload \in Payloads : InjectOutboundData(s, payload)) /\ UNCHANGED tampered

Drain(s) == (\E destLen \in 0..MaxDestLen : WriteOut(s, destLen)) /\ UNCHANGED tampered

\* Endpoint "a" is driven through every operation; endpoint "b" is the peer
\* that receives what "a" writes out (the mirror image adds nothing).
Next ==
    \/ Write("a")
    \/ Drain("a")
    \/ FeedFromNet("a")
    \/ FeedFromWire("b")

Spec == Init /\ [][Next]_vars

\* A session whose sending counter is about to run out.
InitNonce == \E n \in {NonceLast, NonceMax} : InitAt(n)
SpecNonce == InitNonce /\ [][Next]_vars

\* The receiving half of endpoint "a" on a wire that may modify frames.
NextTamper == FeedFromNet("a") \/ FeedTampered("a")
SpecTamper == Init /\ [][NextTamper]_vars

\* ---------------------------------------------------------------- handshake
\* It is the turn of endpoint s to send (to receive) the next handshake message.
TurnToWrite(s) ==
    hs_pos[s] < Len(HandshakePattern) /\ HandshakePattern[hs_pos[s] + 1] = Role(s)
TurnToRead(s) ==
    hs_pos[s] < Len(HandshakePattern) /\ HandshakePattern[hs_pos[s] + 1] = Role(Peer(s))

\* Endpoint s is asked to produce its next handshake message.
WriteHandshakeMessage(s) ==
    /\ phase[s] = "handshake"
    /\ hs_calls < MaxHsCalls
    /\ hs_pos' = [hs_pos EXCEPT ![s] = IF TurnToWrite(s) THEN @ + 1 ELSE @]
    /\ hs_net' = [hs_net EXCEPT
                      ![Peer(s)] = IF TurnToWrite(s) THEN Append(@, hs_pos[s]) ELSE @]
    /\ last' = [op |-> "write_handshake_message", side |-> s, ok |-> TurnToWrite(s),
                ret |-> 0, arg |-> hs_pos[s],
                err |-> IF TurnToWrite(s) THEN "none" ELSE "HandshakeStateError"]
    /\ hs_calls' = hs_calls + 1
    /\ UNCHANGED <<transportVars, chainVars, phase>>

\* Endpoint s is handed handshake message m: the next one its peer has sent,
\* or bytes that are no message of this position.
ReadHandshakeMessage(s, m) ==
    LET fromPeer == hs_net[s] # <<>> /\ Head(hs_net[s]) = m
        accepted == TurnToRead(s) /\ m = hs_pos[s]
    IN  /\ phase[s] = "handshake"
        /\ hs_calls < MaxHsCalls
        /\ hs_pos' = [hs_pos EXCEPT ![s] = IF accepted THEN @ + 1 ELSE @]
        /\ hs_net' = [hs_net EXCEPT ![s] = IF fromPeer THEN Tail(@) ELSE @]
        /\ last' = [op |-> "read_handshake_message", side |-> s, ok |-> accepted,
                    ret |-> 0, arg |-> m,
                    err |-> IF accepted THEN "none"
                            ELSE IF TurnToRead(s) THEN "HandshakeFailed"
                            ELSE "HandshakeStateError"]
        /\ hs_calls' = hs_calls + 1
        /\ UNCHANGED <<transportVars, chainVars, phase>>

IsComplete(s) == hs_pos[s] = Len(HandshakePattern)

\* split() consumes the handshake of endpoint s and yields its cipher sessions.
Split(s) ==
    /\ phase[s] = "handshake"
    /\ hs_calls < MaxHsCalls
    /\ phase' = [phase EXCEPT ![s] = IF IsComplete(s) THEN "established" ELSE @]
    /\ last' = [op |-> "split", side |-> s, ok |-> IsComplete(s),
                ret |-> 0, arg |-> hs_pos[s],
                err |-> IF IsComplete(s) THEN "none" ELSE "HandshakeStateError"]
    /\ hs_calls' = hs_calls + 1
    /\ UNCHANGED <<transportVars, chainVars, hs_pos, hs_net>>

HsWrite(s) == WriteHandshakeMessage(s)
HsRead(s) == \E m \in HsMessages : ReadHandshakeMessage(s, m)

\* Two endpoints that have yet to shake hands.
InitHs ==
    /\ InitTransport(NonceZero)
    /\ hs_pos = [s \in Side |-> 0]
    /\ phase = [s \in Side |-> "handshake"]
    /\ hs_net = [s \in Side |-> <<>>]
    /\ hs_calls = 0
    /\ ChainIdle

\* The handshake of both endpoints, then a few transport calls on "a".
NextHs ==
    \/ HsWrite("a")
    \/ HsWrite("b")
    \/ HsRead("a")
    \/ HsRead("b")
    \/ Split("a")
    \/ Split("b")
    \/ (calls < MaxEstablishedCalls /\ Write("a"))
    \/ (calls < MaxEstablishedCalls /\ Drain("a"))
    \/ (calls < MaxEstablishedCalls /\ FeedFromNet("a"))

SpecHs == InitHs /\ [][NextHs]_vars

\* ---------------------------------------------------- chain information calls
\* ChainInformationRef::from(&chain_info)
BorrowChainInformation ==
    /\ chain_ref = None
    /\ chain_ref' = Some(ChainInformationRefFrom(chain_info))
    /\ UNCHANGED <<transportVars, hsVars, last, genesis_storage, chain_info,
                   chain_back, chain_result>>

\* ChainInformation::from(chain_ref)
OwnChainInformation ==
    /\ chain_ref # None
    /\ chain_back = None
    /\ chain_back' = Some(ChainInformationFromRef(chain_ref[1]))
    /\ UNCHANGED <<transportVars, hsVars, last, genesis_storage, chain_info,
                   chain_ref, chain_result>>

\* ChainInformation::from_genesis_storage(genesis_storage)
CallChainInformationFromGenesisStorage ==
    LET op == "ChainInformation::from_genesis_storage"
    IN  /\ chain_result.op # op
        /\ chain_result' = [op |-> op] @@ ChainInformationFromGenesisStorage(genesis_storage)
        /\ UNCHANGED <<transportVars, hsVars, last, genesis_storage, chain_info,
                       chain_ref, chain_back>>

\* ChainInformationConfig::from_genesis_storage(genesis_storage)
CallChainInformationConfigFromGenesisStorage ==
    LET op == "ChainInformationConfig::from_genesis_storage"
    IN  /\ chain_result.op # op
        /\ chain_result' =
                [op |-> op] @@ ChainInformationConfigFromGenesisStorage(genesis_storage)
        /\ UNCHANGED <<transportVars, hsVars, last, genesis_storage, chain_info,
                       chain_ref, chain_back>>

\* Any chain information and any genesis storage, nothing built from them yet.
InitChain ==
    /\ InitTransport(NonceZero)
    /\ hs_pos = [s \in Side |-> Len(HandshakePattern)]
    /\ phase = [s \in Side |-> "established"]
    /\ hs_net = [s \in Side |-> <<>>]
    /\ hs_calls = 0
    /\ genesis_storage \in GenesisStorages
    /\ chain_info \in ChainInformations
    /\ chain_ref = None
    /\ chain_back = None
    /\ chain_result = [op |-> "none", kind |-> "Ok", err |-> "none", value |-> None]

NextChain ==
    \/ BorrowChainInformation
    \/ OwnChainInformation
    \/ CallChainInformationFromGenesisStorage
    \/ CallChainInformationConfigFromGenesisStorage

SpecChain == InitChain /\ [][NextChain]_vars

\* ------------------------------------------------------------- properties
\* The step just taken was a call of `op` (every call sets `last`, and
\* `calls` tells a call from a stuttering step).
Called(op) == calls' = calls + 1 /\ last'.op = op

\* q begins with a complete frame: a 2-byte big-endian length and that many bytes.
HasCompleteFrame(q) == Len(q) >= 2 /\ Len(q) >= 2 + FromBeBytes(Take(q, 2))

\* Number of frames q is the concatenation of; -1 when q is no such concatenation.
RECURSIVE FrameCount(_)
FrameCount(q) ==
    IF q = <<>> THEN 0
    ELSE IF ~HasCompleteFrame(q) THEN -1
    ELSE LET rest == FrameCount(Drop(q, 2 + FromBeBytes(Take(q, 2))))
         IN  IF rest < 0 THEN -1 ELSE rest + 1

\* q is a concatenation of frames, each declaring a ciphertext of at least
\* one authentication tag.
RECURSIVE WellFramed(_)
WellFramed(q) ==
    \/ q = <<>>
    \/ /\ HasCompleteFrame(q)
       /\ FromBeBytes(Take(q, 2)) >= TagLen
       /\ WellFramed(Drop(q, 2 + FromBeBytes(Take(q, 2))))

CeilDiv(x, y) == (x + y - 1) \div y

\* C1: once everything endpoint "a" queued has been written out and fed to
\* endpoint "b", the plaintext "b" holds for delivery equals the
\* concatenation of the plaintexts passed to inject_outbound_data on "a".
C1_RoundTrip ==
    (tx_buffer_encrypted["a"] = <<>> /\ wire["a"] = <<>>
        /\ rx_buffer_encrypted["b"] = drained["a"])
    => rx_buffer_decrypted["b"] = written["a"]

\* C2: every write_out call returns normally, returns
\* min(len(queue), len(destination)), hands out exactly that many bytes from
\* the front of the queue and removes exactly those from the queue.
C2_DrainInto ==
    [][Called("write_out") =>
        LET q == tx_buffer_encrypted["a"]
            n == Min(Len(q), last'.arg)
        IN  /\ last'.ok
            /\ last'.ret = n
            /\ drained'["a"] = drained["a"] \o Take(q, n)
            /\ tx_buffer_encrypted'["a"] = Drop(q, n)]_vars

\* C3: write_out on an empty queue returns 0 and leaves the queue empty for
\* every destination length, and with a destination longer than the queue
\* it completes normally without consuming more than is queued.
C3_DrainEmpty ==
    [][Called("write_out") =>
        LET q == tx_buffer_encrypted["a"]
        IN  /\ (q = <<>> =>
                    last'.ok /\ last'.ret = 0 /\ tx_buffer_encrypted'["a"] = <<>>)
            /\ (last'.arg > Len(q) => last'.ok /\ last'.ret <= Len(q))]_vars

\* C4: the bytes inject_outbound_data has queued (written out already or
\* still queued) are a concatenation of frames whose 2-byte length counts
\* the ciphertext that follows it: chunk length plus the tag.
C4_WellFormedFrames ==
    WellFramed(drained["a"] \o tx_buffer_encrypted["a"])

\* C5: inject_outbound_data on a plaintext of length L appends exactly
\* ceil(L / (65535 - tag)) frames to the queue (none for L = 0), each
\* declaring at most 65535 bytes.
C5_ChunkCount ==
    [][Called("inject_outbound_data") =>
        FrameCount(Drop(tx_buffer_encrypted'["a"], Len(tx_buffer_encrypted["a"])))
            = CeilDiv(last'.arg, NoiseMaxMsgLen - TagLen)]_vars

\* C6: inject_outbound_data completes normally for every plaintext; the one
\* failure it may have is the exhaustion of the sending counter.
C6_WriteNeverFails ==
    [][Called("inject_outbound_data") =>
        (last'.ok \/ send_nonce["a"] = NonceMax)]_vars

\* C7: the bytes write_out has returned so far, followed by the bytes still
\* queued, are the bytes the inject_outbound_data calls have queued, in the
\* order of the calls.
C7_SendFifo ==
    drained["a"] \o tx_buffer_encrypted["a"] = appended["a"]

\* C8: inject_outbound_data leaves the bytes already queued unchanged and
\* in place, and only adds bytes after them.
C8_AppendOnly ==
    [][Called("inject_outbound_data") =>
        /\ Len(tx_buffer_encrypted'["a"]) >= Len(tx_buffer_encrypted["a"])
        /\ Take(tx_buffer_encrypted'["a"], Len(tx_buffer_encrypted["a"]))
               = tx_buffer_encrypted["a"]]_vars

\* C9: after an inject_inbound_data call the undecrypted buffer holds less
\* than one complete frame, and the buffer only ever loses whole frames
\* from its front.
C9_FramesExtracted ==
    [][Called("inject_inbound_data") =>
        LET s == last'.side
            fed == rx_buffer_encrypted[s] \o
                       Drop(rx_buffer_encrypted'[s], Len(rx_buffer_encrypted[s]))
        IN  /\ ~HasCompleteFrame(rx_buffer_encrypted'[s])
            /\ \E k \in 0..Len(fed) :
                   /\ rx_buffer_encrypted'[s] = Drop(fed, k)
                   /\ FrameCount(Take(fed, k)) >= 0]_vars

\* C10: inject_inbound_data keeps the plaintext already in the decrypted
\* buffer, unchanged and in place, and leaves the buffer as it was when the
\* call completes no frame.
C10_DecryptedAppendOnly ==
    [][Called("inject_inbound_data") =>
        LET s == last'.side
        IN  /\ Len(rx_buffer_decrypted'[s]) >= Len(rx_buffer_decrypted[s])
            /\ Take(rx_buffer_decrypted'[s], Len(rx_buffer_decrypted[s]))
                   = rx_buffer_decrypted[s]
            /\ (~HasCompleteFrame(rx_buffer_encrypted'[s])
                    => rx_buffer_decrypted'[s] = rx_buffer_decrypted[s])]_vars

\* C11: a chunk of a frame that had one bit flipped on the wire makes
\* inject_inbound_data report AuthenticationFailed to its caller, and
\* nothing of that frame is decrypted into the decrypted buffer.
C11_TamperDetected ==
    [][(Called("inject_inbound_data") /\ tampered') =>
        LET s == last'.side
        IN  /\ last'.err = "AuthenticationFailed"
            /\ recv_nonce'[s] = recv_nonce[s]
            /\ rx_buffer_decrypted'[s] = rx_buffer_decrypted[s]]_vars

\* C12: the inject_inbound_data call in which a frame fails authentication
\* reports AuthenticationFailed, and from then on no call on that endpoint
\* decrypts anything or touches the decrypted buffer.
C12_FailureSticky ==
    [][Called("inject_inbound_data") =>
        LET s == last'.side
        IN  /\ (auth_failed'[s] /\ ~auth_failed[s]
                    => last'.err = "AuthenticationFailed")
            /\ (auth_failed[s]
                    => /\ recv_nonce'[s] = recv_nonce[s]
                       /\ rx_buffer_decrypted'[s] = rx_buffer_decrypted[s])]_vars

\* C13: the sending counter never goes back or wraps, and an
\* inject_outbound_data that needs an encryption when the counter is at its
\* maximum hands NonceExhausted to its caller and queues nothing.
C13_NonceExhaustion ==
    [][Called("inject_outbound_data") =>
        /\ \/ send_nonce'["a"] = send_nonce["a"]
           \/ NonceLess(send_nonce["a"], send_nonce'["a"])
        /\ (send_nonce["a"] = NonceMax /\ last'.arg > 0
                => /\ last'.err = "NonceExhausted"
                   /\ tx_buffer_encrypted'["a"] = tx_buffer_encrypted["a"])]_vars

\* The step just taken was a handshake call of `op`.
HsCalled(op) == hs_calls' = hs_calls + 1 /\ last'.op = op

\* The three messages of the handshake: initiator -> responder,
\* responder -> initiator, initiator -> responder.
ExpectedSender(p) == IF p = 1 THEN "responder" ELSE "initiator"

TransportOps == {"inject_inbound_data", "inject_outbound_data", "write_out"}

C16_ErrorsAsValues ==
    chain_result.op # "none" =>
        LET noGrandpa == genesis_storage.grandpa_authorities = None
            noBabe == /\ chain_result.op = "ChainInformationConfig::from_genesis_storage"
                      /\ genesis_storage.babe_configuration = None
        IN  /\ chain_result.kind \in {"Ok", "Err"}
            /\ (noGrandpa \/ noBabe) => chain_result.kind = "Err"
            /\ (noGrandpa /\ ~noBabe) => chain_result.err = "GrandpaConfigLoad"
            /\ chain_result.kind = "Ok" => ~(noGrandpa \/ noBabe)

\* C17: a ChainInformation converted to a ChainInformationRef and back is
\* equal to the original in every field.
C17_RefRoundTrip ==
    chain_back # None => chain_back[1] = chain_info

\* A chain information with every optional field present, the two Babe epoch
\* fields different, has made the round trip.
C17_Witness ==
    /\ chain_back # None
    /\ chain_info.finalized_block_header.number = 1
    /\ chain_info.babe_finalized_block1_slot_number # None
    /\ chain_info.babe_finalized_block_epoch_information # None
    /\ chain_info.babe_finalized_next_epoch_transition # None
    /\ chain_info.babe_finalized_block_epoch_information
            # chain_info.babe_finalized_next_epoch_transition
    /\ chain_info.grandpa_after_finalized_block_authorities_set_id = 1
    /\ chain_info.grandpa_finalized_triggered_authorities # <<>>
    /\ chain_info.grandpa_finalized_scheduled_changes # <<>>

\* n + k, staying at u64::MAX once there; n for k < 0
RECURSIVE NonceAdd(_, _)
NonceAdd(n, k) == IF k <= 0 THEN n ELSE NonceAdd(NonceInc(n), k - 1)

\* C18: inject_outbound_data runs the sending cipher once per chunk: the
\* bytes it appends are a sequence of frames, each a length prefix followed
\* by one ciphertext with its tag, and the sending counter advances by
\* exactly the number of frames appended.
C18_OneEncryptionPerFrame ==
    [][Called("inject_outbound_data") =>
        LET added == Drop(tx_buffer_encrypted'["a"], Len(tx_buffer_encrypted["a"]))
        IN  /\ FrameCount(added) >= 0
            /\ send_nonce'["a"] = NonceAdd(send_nonce["a"], FrameCount(added))]_vars

\* C19: inject_inbound_data leaves the queue of bytes to send and the sending
\* counter as they were; inject_outbound_data and write_out leave the
\* received bytes, the decrypted bytes and the receiving counter as they
\* were; write_out changes no counter.
C19_DirectionIndependence ==
    [][/\ Called("inject_inbound_data") =>
            /\ tx_buffer_encrypted' = tx_buffer_encrypted
            /\ tx_head' = tx_head
            /\ tx_cap' = tx_cap
            /\ send_nonce' = send_nonce
       /\ (Called("inject_outbound_data") \/ Called("write_out")) =>
            /\ rx_buffer_encrypted' = rx_buffer_encrypted
            /\ rx_buffer_decrypted' = rx_buffer_decrypted
            /\ recv_nonce' = recv_nonce
       /\ Called("write_out") => send_nonce' = send_nonce]_vars

\* Endpoint "a", with bytes queued for sending, has been fed a ciphertext
\* that it decrypted.
C19_Witness ==
    /\ last.op = "inject_inbound_data"
    /\ last.side = "a"
    /\ tx_buffer_encrypted["a"] # <<>>
    /\ recv_nonce["a"] # NonceZero
    /\ rx_buffer_decrypted["a"] # <<>>

====
